---- MODULE Spec2Model ----
(***************************************************************************)
(* Model of mejora_codigo.py: the driver main() that tests, improves,      *)
(* stages, swaps, re-tests and (tries to) restore codigo.py, together with *)
(* the helpers it calls (ejecutar_pruebas, mejorar_codigo, crear_archivo,  *)
(* cargar_codigo, shutil.move).                                            *)
(*                                                                         *)
(* A text is a sequence of characters.  A file is a record saying whether  *)
(* the path exists and what it holds.  An optional value (Python's None or *)
(* a str) is a record with a "nulo" flag.                                  *)
(***************************************************************************)
EXTENDS Integers, Sequences, FiniteSets, TLC

\* ------------------------------------------------------------------ bounds

\* Longest text read from codigo.py or returned by the completion service.
MaxLen == 2

\* Number of consecutive runs of the program on the same working directory.
MaxRuns == 2

\* Largest iteration count given to mejorar_codigo when it is studied alone.
MaxIter == 3

\* ------------------------------------------------------------------ values

Chars == {"a", " "}

\* The characters str.strip() removes.
Blancos == {" "}

Textos == UNION {[1..n -> Chars] : n \in 0..MaxLen}

\* iteraciones = 3 in main().
Iteraciones == 3

\* The string literal written to nuevas_funciones/resta.py, cut at its line
\* breaks: "\ndef resta(a, b):\n    return a - b\n".
nuevo_codigo == <<"\n", "def resta(a, b):", "\n", "    return a - b", "\n">>

\* Paths, as their components: 'codigo.py', 'temp/codigo_mejorado.py',
\* 'nuevas_funciones/resta.py'.
RutaCodigo == <<"codigo.py">>
RutaTemp == <<"temp", "codigo_mejorado.py">>
RutaResta == <<"nuevas_funciones", "resta.py">>
Rutas == {RutaCodigo, RutaTemp, RutaResta}

\* os.path.dirname: everything before the last component ('' when there is
\* a single component).
Dirname(ruta) == SubSeq(ruta, 1, Len(ruta) - 1)

Nada == [nulo |-> TRUE, v |-> <<>>]
Algun(t) == [nulo |-> FALSE, v |-> t]

Ausente == [existe |-> FALSE, datos |-> <<>>]
Archivo(t) == [existe |-> TRUE, datos |-> t]

\* What ejecutar_comando returns: a CompletedProcess with returncode 0, one
\* with a non-zero returncode, or None when subprocess.run raised.
ResultadosComando == {"cero", "nocero", "None"}

\* ------------------------------------------------------------------ pure helpers

RECURSIVE LStrip(_)
LStrip(s) == IF s # <<>> /\ Head(s) \in Blancos THEN LStrip(Tail(s)) ELSE s

RECURSIVE RStrip(_)
RStrip(s) ==
    IF s # <<>> /\ s[Len(s)] \in Blancos THEN RStrip(SubSeq(s, 1, Len(s) - 1)) ELSE s

\* A strip that forgets the trailing whitespace.
StripSoloIzquierda(s) == LStrip(s)

\* str.strip()
Strip(s) == RStrip(LStrip(s))

\* ejecutar_pruebas accepting any completed process, whatever its returncode.
ejecutar_pruebas_sin_returncode(resultado) == resultado # "None"

\* ejecutar_pruebas: resultado and resultado.returncode == 0
ejecutar_pruebas(resultado) == resultado # "None" /\ resultado = "cero"

\* A main that compares with the empty string only.
SinMejoraSoloVacio(mejorado) == ~mejorado.nulo /\ mejorado.v = <<>>

\* A main that tests only for None.
SinMejoraSoloNone(mejorado) == mejorado.nulo

\* main: "if not codigo_mejorado" is true of None and of the empty string.
SinMejora(mejorado) == mejorado.nulo \/ mejorado.v = <<>>

\* A makedirs that accepts the empty path.
MakedirsAceptaVacio(dir) == FALSE

\* os.makedirs(dir, exist_ok=True) raises FileNotFoundError on the empty path,
\* which is what os.path.dirname gives for a path without a directory part.
MakedirsFalla(dir) == dir = <<>>

Prefijos(s) == {SubSeq(s, 1, n) : n \in 0..Len(s)}

\* What a file can hold when open(ruta, 'w') truncated it and the write or the
\* flush at close then raised.
Parciales(s) == IF s = <<>> THEN {<<>>} ELSE Prefijos(s) \ {s}

\* Where an I/O error can hit crear_archivo: nowhere, in makedirs/open (the
\* file is untouched), or in write/close (the file is already truncated).
Fallas == {"ninguna", "abrir", "escribir"}

\* crear_archivo(ruta, contenido) on the file system "sistema": the possible
\* results.  Every exception is caught and logged, so the caller never sees
\* "ok"; it is kept for the properties.
crear_archivo(sistema, ruta, contenido, falla) ==
    IF MakedirsFalla(Dirname(ruta)) \/ falla = "abrir"
    THEN {[fs |-> sistema, ok |-> FALSE, abierto |-> FALSE]}
    ELSE IF falla = "escribir"
    THEN {[fs |-> [sistema EXCEPT ![ruta] = Archivo(p)], ok |-> FALSE, abierto |-> TRUE] :
              p \in Parciales(contenido)}
    ELSE {[fs |-> [sistema EXCEPT ![ruta] = Archivo(contenido)], ok |-> TRUE, abierto |-> TRUE]}

\* guardar_codigo is crear_archivo.
guardar_codigo(sistema, ruta, codigo_, falla) == crear_archivo(sistema, ruta, codigo_, falla)

\* ------------------------------------------------------------------ state

VARIABLES
    fs,               \* the working directory: path -> file
    corrida,          \* which run of the program this is (1..MaxRuns)
    pc,               \* where main() is
    exit_code,        \* -1 while running, then the process exit status
    traza,            \* the steps of main() taken so far in this run
    codigo_original,  \* main's codigo_original (Nada before the load)
    codigo_mejorado,  \* main's codigo_mejorado (Nada: None)
    res_original,     \* result of the test command before the improvement
    res_mejorado,     \* result of the test command after the swap
    lint,             \* results of pylint and flake8
    escrito,          \* per path: outcome of the last crear_archivo of this run
    movido,           \* outcome of shutil.move in this run
    cambios,          \* per path: how many times this run changed the file
    iteraciones,      \* mejorar_codigo: its parameter
    i,                \* mejorar_codigo: completed rounds
    codigo,           \* mejorar_codigo: the current code
    prompt,           \* mejorar_codigo: code embedded in the last request
    respuesta,        \* mejorar_codigo: choices[0].text of the last response
    llamadas,         \* mejorar_codigo: requests made
    fallo             \* mejorar_codigo: the last request raised

motor == <<iteraciones, i, codigo, prompt, respuesta, llamadas, fallo>>
proceso == <<pc, exit_code, traza, codigo_original, codigo_mejorado, res_original,
             res_mejorado, lint, escrito, movido, cambios>>
vars == <<fs, corrida, proceso, motor>>

SinEscribir == [r \in Rutas |-> "no"]
SinCambios == [r \in Rutas |-> 0]

MotorInactivo ==
    /\ iteraciones = 0
    /\ i = 0
    /\ codigo = <<>>
    /\ prompt = Nada
    /\ respuesta = Nada
    /\ llamadas = 0
    /\ fallo = FALSE

ProcesoNuevo ==
    /\ pc = "LOAD"
    /\ exit_code = -1
    /\ traza = <<>>
    /\ codigo_original = Nada
    /\ codigo_mejorado = Nada
    /\ res_original = "no"
    /\ res_mejorado = "no"
    /\ lint = <<"no", "no">>
    /\ escrito = SinEscribir
    /\ movido = "no"
    /\ cambios = SinCambios

Init ==
    /\ fs \in {[r \in Rutas |-> IF r = RutaCodigo THEN f ELSE Ausente] :
                  f \in {Ausente} \cup {Archivo(t) : t \in Textos}}
    /\ corrida = 1
    /\ ProcesoNuevo
    /\ MotorInactivo

Paso(nombre) == traza' = Append(traza, nombre)

Salir(n) == pc' = "EXIT" /\ exit_code' = n

\* ------------------------------------------------------------------ main

\* cargar_codigo('codigo.py'): the read fails when the file is missing or
\* unreadable, and then exit(1).
Load ==
    /\ pc = "LOAD"
    /\ Paso("LOAD")
    /\ \E leido \in BOOLEAN :
        /\ leido => fs[RutaCodigo].existe
        /\ IF leido
           THEN /\ codigo_original' = Algun(fs[RutaCodigo].datos)
                /\ pc' = "TEST_ORIGINAL"
                /\ UNCHANGED exit_code
           ELSE /\ Salir(1)
                /\ UNCHANGED codigo_original
    /\ UNCHANGED <<fs, corrida, codigo_mejorado, res_original, res_mejorado, lint,
                   escrito, movido, cambios, motor>>

\* if ejecutar_pruebas(): ... else: exit(1)
TestOriginal ==
    /\ pc = "TEST_ORIGINAL"
    /\ Paso("TEST_ORIGINAL")
    /\ \E resultado \in ResultadosComando :
        /\ res_original' = resultado
        /\ IF ejecutar_pruebas(resultado)
           THEN pc' = "IMPROVE" /\ UNCHANGED exit_code
           ELSE Salir(1)
    /\ UNCHANGED <<fs, corrida, codigo_original, codigo_mejorado, res_mejorado, lint,
                   escrito, movido, cambios, motor>>

\* codigo_mejorado = mejorar_codigo(codigo_original, iteraciones): the call.
Improve ==
    /\ pc = "IMPROVE"
    /\ Paso("IMPROVE")
    /\ iteraciones' = Iteraciones
    /\ i' = 0
    /\ codigo' = codigo_original.v
    /\ pc' = "M_LOOP"
    /\ UNCHANGED <<fs, corrida, exit_code, codigo_original, codigo_mejorado, res_original,
                   res_mejorado, lint, escrito, movido, cambios, prompt, respuesta, llamadas, fallo>>

\* ------------------------------------------------------------------ mejorar_codigo

\* One more round: openai.Completion.create with the current code in the prompt.
MejorarPide ==
    /\ pc = "M_LOOP"
    /\ i < iteraciones
    /\ prompt' = Algun(codigo)
    /\ llamadas' = llamadas + 1
    /\ pc' = "M_ESPERA"
    /\ UNCHANGED <<fs, corrida, exit_code, traza, codigo_original, codigo_mejorado,
                   res_original, res_mejorado, lint, escrito, movido, cambios, iteraciones, i,
                   codigo, respuesta, fallo>>

\* The response arrives: sugerencia = response.choices[0].text.strip();
\* codigo = sugerencia.
MejorarResponde ==
    /\ pc = "M_ESPERA"
    /\ \E texto \in Textos :
        /\ respuesta' = Algun(texto)
        /\ codigo' = Strip(texto)
    /\ i' = i + 1
    /\ pc' = "M_LOOP"
    /\ UNCHANGED <<fs, corrida, exit_code, traza, codigo_original, codigo_mejorado,
                   res_original, res_mejorado, lint, escrito, movido, cambios, iteraciones,
                   prompt, llamadas, fallo>>

\* The request raised (no credential, network, quota, malformed response):
\* except Exception: return None.
MejorarFalla ==
    /\ pc = "M_ESPERA"
    /\ fallo' = TRUE
    /\ codigo_mejorado' = Nada
    /\ pc' = "CHECK"
    /\ UNCHANGED <<fs, corrida, exit_code, traza, codigo_original, res_original,
                   res_mejorado, lint, escrito, movido, cambios, iteraciones, i, codigo, prompt,
                   respuesta, llamadas>>

\* The loop is over: return codigo.
MejorarRetorna ==
    /\ pc = "M_LOOP"
    /\ i >= iteraciones
    /\ codigo_mejorado' = Algun(codigo)
    /\ pc' = "CHECK"
    /\ UNCHANGED <<fs, corrida, exit_code, traza, codigo_original, res_original,
                   res_mejorado, lint, escrito, movido, cambios, motor>>

\* ------------------------------------------------------------------ main, continued

\* if not codigo_mejorado: exit(1).  The locals of mejorar_codigo are gone.
Check ==
    /\ pc = "CHECK"
    /\ IF SinMejora(codigo_mejorado)
       THEN Salir(1)
       ELSE pc' = "STAGE_TEMP" /\ UNCHANGED exit_code
    /\ iteraciones' = 0
    /\ i' = 0
    /\ codigo' = <<>>
    /\ prompt' = Nada
    /\ respuesta' = Nada
    /\ llamadas' = 0
    /\ fallo' = FALSE
    /\ UNCHANGED <<fs, corrida, traza, codigo_original, codigo_mejorado, res_original,
                   res_mejorado, lint, escrito, movido, cambios>>

\* One call of guardar_codigo from main, and the bookkeeping of its outcome.
Guardar(ruta, contenido) ==
    \E falla \in Fallas :
        \E r \in guardar_codigo(fs, ruta, contenido, falla) :
            /\ fs' = r.fs
            /\ escrito' = [escrito EXCEPT ![ruta] = IF r.ok THEN "ok" ELSE "error"]
            /\ cambios' = [cambios EXCEPT ![ruta] = IF r.abierto THEN @ + 1 ELSE @]

\* guardar_codigo('temp/codigo_mejorado.py', codigo_mejorado)
StageTemp ==
    /\ pc = "STAGE_TEMP"
    /\ Paso("STAGE_TEMP")
    /\ Guardar(RutaTemp, codigo_mejorado.v)
    /\ pc' = "DIFF_LOG"
    /\ UNCHANGED <<corrida, exit_code, codigo_original, codigo_mejorado, res_original,
                   res_mejorado, lint, movido, motor>>

\* calcular_diferencia and the logging of its entries: nothing but the log
\* depends on it.
DiffLog ==
    /\ pc = "DIFF_LOG"
    /\ Paso("DIFF_LOG")
    /\ pc' = "LINT_LOG"
    /\ UNCHANGED <<fs, corrida, exit_code, codigo_original, codigo_mejorado, res_original,
                   res_mejorado, lint, escrito, movido, cambios, motor>>

\* analizar_codigo and verificar_estilo_codigo: pylint and flake8 on the
\* staged file; a non-zero returncode is logged as a warning.
LintLog ==
    /\ pc = "LINT_LOG"
    /\ Paso("LINT_LOG")
    /\ \E r1 \in ResultadosComando, r2 \in ResultadosComando : lint' = <<r1, r2>>
    /\ pc' = "SWAP"
    /\ UNCHANGED <<fs, corrida, exit_code, codigo_original, codigo_mejorado, res_original,
                   res_mejorado, escrito, movido, cambios, motor>>

\* A swap whose failure is logged without exit(1).
SwapSinSalir ==
    /\ pc = "SWAP"
    /\ Paso("SWAP")
    /\ \E renombrado \in BOOLEAN :
        /\ renombrado => fs[RutaTemp].existe
        /\ IF renombrado
           THEN /\ fs' = [fs EXCEPT ![RutaCodigo] = fs[RutaTemp], ![RutaTemp] = Ausente]
                /\ movido' = "ok"
                /\ cambios' = [cambios EXCEPT ![RutaCodigo] = @ + 1, ![RutaTemp] = @ + 1]
           ELSE /\ movido' = "error"
                /\ UNCHANGED <<fs, cambios>>
    /\ pc' = "TEST_IMPROVED"
    /\ UNCHANGED <<corrida, exit_code, codigo_original, codigo_mejorado, res_original,
                   res_mejorado, lint, escrito, motor>>

\* shutil.move('temp/codigo_mejorado.py', 'codigo.py') in a try whose handler
\* is exit(1).  The move raises when the staged file is missing or the rename
\* is refused; otherwise codigo.py holds what the staged file held and the
\* staged file is gone.
Swap ==
    /\ pc = "SWAP"
    /\ Paso("SWAP")
    /\ \E renombrado \in BOOLEAN :
        /\ renombrado => fs[RutaTemp].existe
        /\ IF renombrado
           THEN /\ fs' = [fs EXCEPT ![RutaCodigo] = fs[RutaTemp], ![RutaTemp] = Ausente]
                /\ movido' = "ok"
                /\ cambios' = [cambios EXCEPT ![RutaCodigo] = @ + 1, ![RutaTemp] = @ + 1]
                /\ pc' = "TEST_IMPROVED"
                /\ UNCHANGED exit_code
           ELSE /\ Salir(1)
                /\ movido' = "error"
                /\ UNCHANGED <<fs, cambios>>
    /\ UNCHANGED <<corrida, codigo_original, codigo_mejorado, res_original, res_mejorado,
                   lint, escrito, motor>>

\* if ejecutar_pruebas(): log ... else: restore
TestImproved ==
    /\ pc = "TEST_IMPROVED"
    /\ Paso("TEST_IMPROVED")
    /\ \E resultado \in ResultadosComando :
        /\ res_mejorado' = resultado
        /\ pc' = IF ejecutar_pruebas(resultado) THEN "EMIT_EXAMPLE_FILE"
                 ELSE "RESTORE_ORIGINAL"
    /\ UNCHANGED <<fs, corrida, exit_code, codigo_original, codigo_mejorado, res_original,
                   lint, escrito, movido, cambios, motor>>

\* A restore whose failure ends the process with status 1.
RestoreOriginalFatal ==
    /\ pc = "RESTORE_ORIGINAL"
    /\ Paso("RESTORE_ORIGINAL")
    /\ Guardar(RutaCodigo, codigo_original.v)
    /\ IF escrito'[RutaCodigo] = "ok"
       THEN pc' = "EMIT_EXAMPLE_FILE" /\ UNCHANGED exit_code
       ELSE Salir(1)
    /\ UNCHANGED <<corrida, codigo_original, codigo_mejorado, res_original,
                   res_mejorado, lint, movido, motor>>

\* guardar_codigo('codigo.py', codigo_original)
RestoreOriginal ==
    /\ pc = "RESTORE_ORIGINAL"
    /\ Paso("RESTORE_ORIGINAL")
    /\ Guardar(RutaCodigo, codigo_original.v)
    /\ pc' = "EMIT_EXAMPLE_FILE"
    /\ UNCHANGED <<corrida, exit_code, codigo_original, codigo_mejorado, res_original,
                   res_mejorado, lint, movido, motor>>

\* An example file that holds the improved code instead of the literal.
EmitExampleFileMejorado ==
    /\ pc = "EMIT_EXAMPLE_FILE"
    /\ Paso("EMIT_EXAMPLE_FILE")
    /\ Guardar(RutaResta, codigo_mejorado.v)
    /\ pc' = "WALK_LOG"
    /\ UNCHANGED <<corrida, exit_code, codigo_original, codigo_mejorado, res_original,
                   res_mejorado, lint, movido, motor>>

\* guardar_codigo('nuevas_funciones/resta.py', nuevo_codigo)
EmitExampleFile ==
    /\ pc = "EMIT_EXAMPLE_FILE"
    /\ Paso("EMIT_EXAMPLE_FILE")
    /\ Guardar(RutaResta, nuevo_codigo)
    /\ pc' = "WALK_LOG"
    /\ UNCHANGED <<corrida, exit_code, codigo_original, codigo_mejorado, res_original,
                   res_mejorado, lint, movido, motor>>

\* listar_archivos('.') only logs, and catches what os.walk raises; main then
\* returns and the process ends with status 0.
WalkLog ==
    /\ pc = "WALK_LOG"
    /\ Paso("WALK_LOG")
    /\ Salir(0)
    /\ UNCHANGED <<fs, corrida, codigo_original, codigo_mejorado, res_original,
                   res_mejorado, lint, escrito, movido, cambios, motor>>

\* The program is started again in the same working directory.
NuevaCorrida ==
    /\ pc = "EXIT"
    /\ corrida < MaxRuns
    /\ corrida' = corrida + 1
    /\ pc' = "LOAD"
    /\ exit_code' = -1
    /\ traza' = <<>>
    /\ codigo_original' = Nada
    /\ codigo_mejorado' = Nada
    /\ res_original' = "no"
    /\ res_mejorado' = "no"
    /\ lint' = <<"no", "no">>
    /\ escrito' = SinEscribir
    /\ movido' = "no"
    /\ cambios' = SinCambios
    /\ UNCHANGED <<fs, motor>>

Next ==
    \/ Load
    \/ TestOriginal
    \/ Improve
    \/ MejorarPide
    \/ MejorarResponde
    \/ MejorarFalla
    \/ MejorarRetorna
    \/ Check
    \/ StageTemp
    \/ DiffLog
    \/ LintLog
    \/ Swap
    \/ TestImproved
    \/ RestoreOriginal
    \/ EmitExampleFile
    \/ WalkLog
    \/ NuevaCorrida

Spec == Init /\ [][Next]_vars

\* ------------------------------------------------------------------ mejorar_codigo alone

\* mejorar_codigo(codigo, iteraciones) just called, for any text and any
\* positive iteration count.
InitMejorar ==
    /\ \E t \in Textos :
        /\ fs = [r \in Rutas |-> IF r = RutaCodigo THEN Archivo(t) ELSE Ausente]
        /\ codigo_original = Algun(t)
        /\ codigo = t
    /\ iteraciones \in 1..MaxIter
    /\ corrida = 1
    /\ pc = "M_LOOP"
    /\ exit_code = -1
    /\ traza = <<"LOAD", "TEST_ORIGINAL", "IMPROVE">>
    /\ codigo_mejorado = Nada
    /\ res_original = "cero"
    /\ res_mejorado = "no"
    /\ lint = <<"no", "no">>
    /\ escrito = SinEscribir
    /\ movido = "no"
    /\ cambios = SinCambios
    /\ i = 0
    /\ prompt = Nada
    /\ respuesta = Nada
    /\ llamadas = 0
    /\ fallo = FALSE

NextMejorar ==
    \/ MejorarPide
    \/ MejorarResponde
    \/ MejorarFalla
    \/ MejorarRetorna

SpecMejorar == InitMejorar /\ [][NextMejorar]_vars

\* ------------------------------------------------------------------ properties

Terminado == pc = "EXIT"

EnTraza(p) == \E k \in 1..Len(traza) : traza[k] = p

Veces(p) == Cardinality({k \in 1..Len(traza) : traza[k] = p})

PruebaFallo(resultado) == resultado \in {"nocero", "None"}

\* s is crudo without its leading and trailing whitespace, said without
\* reference to how the removal is computed.
EsStripDe(s, crudo) ==
    \E a \in 0..Len(crudo) :
        /\ a + Len(s) <= Len(crudo)
        /\ SubSeq(crudo, a + 1, a + Len(s)) = s
        /\ \A k \in 1..a : crudo[k] \in Blancos
        /\ \A k \in (a + Len(s) + 1)..Len(crudo) : crudo[k] \in Blancos
        /\ s # <<>> => (s[1] \notin Blancos /\ s[Len(s)] \notin Blancos)

CaminoHastaImprove == <<"LOAD", "TEST_ORIGINAL", "IMPROVE">>
CaminoHastaSwap == CaminoHastaImprove \o <<"STAGE_TEMP", "DIFF_LOG", "LINT_LOG", "SWAP">>

\* C1: when the tests run after the swap fail, the finished run leaves
\* codigo.py holding exactly the original text it loaded.
C1_RestauraOriginal ==
    (Terminado /\ PruebaFallo(res_mejorado)) => fs[RutaCodigo] = Archivo(codigo_original.v)

\* C2: when the tests run after the swap pass, the finished run leaves
\* codigo.py holding exactly the text the improvement engine returned.
C2_MejoradoAplicado ==
    (Terminado /\ res_mejorado = "cero") => fs[RutaCodigo] = Archivo(codigo_mejorado.v)

\* C3: when the first test run does not pass (non-zero returncode, or the
\* test command could not be launched), the run is over with exit status 1,
\* codigo.py has not been changed and still holds the loaded text, and
\* mejorar_codigo was never called.
C3_OriginalFallaAborta ==
    PruebaFallo(res_original) =>
        /\ Terminado
        /\ exit_code = 1
        /\ cambios[RutaCodigo] = 0
        /\ escrito[RutaCodigo] = "no"
        /\ movido = "no"
        /\ fs[RutaCodigo] = Archivo(codigo_original.v)
        /\ ~EnTraza("IMPROVE")
        /\ llamadas = 0

C3_Witness ==
    /\ Terminado
    /\ res_original = "nocero"
    /\ codigo_original.v # <<>>

\* mejorar_codigo has returned None to main.
MotorDevolvioNone ==
    /\ EnTraza("IMPROVE")
    /\ pc \notin {"M_LOOP", "M_ESPERA"}
    /\ codigo_mejorado.nulo

\* C4: when the original passes its tests and mejorar_codigo returns None, the
\* run ends with exit status 1, codigo.py still holds exactly the original
\* text, and neither the staging file nor codigo.py was written or moved.
C4_SinResultadoAborta ==
    MotorDevolvioNone =>
        /\ pc \in {"CHECK", "EXIT"}
        /\ Terminado => exit_code = 1
        /\ res_original = "cero"
        /\ fs[RutaCodigo] = Archivo(codigo_original.v)
        /\ cambios[RutaCodigo] = 0 /\ cambios[RutaTemp] = 0
        /\ escrito[RutaCodigo] = "no" /\ escrito[RutaTemp] = "no"
        /\ movido = "no"
        /\ traza = CaminoHastaImprove

C4_Witness ==
    /\ Terminado
    /\ MotorDevolvioNone
    /\ codigo_original.v # <<>>

\* The fatal conditions, read off a finished run.
CargaFallo == codigo_original.nulo
SinResultado == EnTraza("IMPROVE") /\ (codigo_mejorado.nulo \/ codigo_mejorado.v = <<>>)
RestauracionFallo == EnTraza("RESTORE_ORIGINAL") /\ escrito[RutaCodigo] = "error"

\* C5, as stated: exit status 0 exactly for the runs that complete normally
\* (improved and kept, or improved and reverted), and 1 for original failing
\* its tests, no result from the engine, load failure, and a failure while
\* restoring the original after a failed test of the improved code.
C5_CodigosComoDeclarado ==
    Terminado =>
        /\ exit_code = 0 <=> EnTraza("WALK_LOG")
        /\ PruebaFallo(res_original) => exit_code = 1
        /\ SinResultado => exit_code = 1
        /\ CargaFallo => exit_code = 1
        /\ RestauracionFallo => exit_code = 1

\* C5, amended: exit status 0 exactly for the runs that reach the end of main
\* (tests of the improved code passed, or failed and the restore was
\* attempted, whether or not it succeeded), and 1 exactly for: load failure,
\* original failing its tests, the engine returning None or an empty text,
\* and a failed move of the staged file; a failed restore leaves status 0.
C5_CodigosDeSalida ==
    Terminado =>
        /\ exit_code \in {0, 1}
        /\ exit_code = 0 <=> EnTraza("WALK_LOG")
        /\ exit_code = 1 <=>
               (CargaFallo \/ PruebaFallo(res_original) \/ SinResultado \/ movido = "error")
        /\ RestauracionFallo => exit_code = 0

C5_Witness ==
    /\ Terminado
    /\ RestauracionFallo
    /\ exit_code = 0

\* C6, as stated: a failed write of the staging file never ends the process;
\* the run goes on to its normal completion.
C6_EscrituraNuncaTermina ==
    (Terminado /\ escrito[RutaTemp] = "error") => exit_code = 0

\* C6, amended: a failure inside crear_archivo never ends the process at that
\* call.  After a failed restore or a failed write of the example file the run
\* still ends with status 0.  After a failed write of the staging file the run
\* goes on through DIFF_LOG and LINT_LOG to SWAP, and ends with status 1
\* exactly when the move then fails.
C6_FalloDeEscritura ==
    /\ escrito[RutaTemp] = "error" =>
           /\ pc \notin {"STAGE_TEMP", "CHECK"}
           /\ Terminado => (SubSeq(traza, 1, 7) = CaminoHastaSwap
                            /\ (exit_code = 1 <=> movido = "error"))
    /\ escrito[RutaCodigo] = "error" =>
           /\ pc \in {"EMIT_EXAMPLE_FILE", "WALK_LOG", "EXIT"}
           /\ Terminado => exit_code = 0
    /\ escrito[RutaResta] = "error" =>
           /\ pc \in {"WALK_LOG", "EXIT"}
           /\ Terminado => exit_code = 0

C6_Witness ==
    /\ Terminado
    /\ escrito[RutaTemp] = "error"
    /\ exit_code = 1
    /\ movido = "error"

\* C7: mejorar_codigo(codigo, N), N >= 1.  The first prompt embeds the
\* argument and every later prompt embeds the stripped candidate of the round
\* before.  When no round fails there are exactly N requests and the result
\* is the stripped candidate of the N-th.  When round k fails there are
\* exactly k requests and the result is None.
C7_MejorarCodigo ==
    /\ llamadas <= iteraciones
    /\ pc = "M_ESPERA" =>
           /\ llamadas = i + 1
           /\ llamadas = 1 => prompt = Algun(codigo_original.v)
           /\ llamadas > 1 => (~prompt.nulo /\ EsStripDe(prompt.v, respuesta.v))
    /\ pc = "M_LOOP" => llamadas = i
    /\ (pc = "CHECK" /\ ~fallo) =>
           /\ llamadas = iteraciones
           /\ ~codigo_mejorado.nulo
           /\ EsStripDe(codigo_mejorado.v, respuesta.v)
    /\ (pc = "CHECK" /\ fallo) =>
           /\ codigo_mejorado = Nada
           /\ llamadas = i + 1

C7_Witness ==
    /\ pc = "CHECK"
    /\ fallo
    /\ llamadas = 2
    /\ codigo # <<>>
    /\ codigo # codigo_original.v
    /\ respuesta.v # codigo

\* C8, as stated: every run writes nuevas_funciones/resta.py once with the
\* static content whatever the improvement gave, so after any run that got as
\* far as calling the engine the file holds that content.
C8_SiempreEscrito ==
    (Terminado /\ EnTraza("IMPROVE")) =>
        (Veces("EMIT_EXAMPLE_FILE") = 1 /\ fs[RutaResta] = Archivo(nuevo_codigo))

\* C8, amended: a run that ends with status 0 calls the write of
\* nuevas_funciones/resta.py exactly once, whether the improvement was kept or
\* not; a run that ends with status 1 never calls it and leaves the file as it
\* was; whenever that write succeeds the file holds exactly the static
\* content, and a file left by a failed write holds a prefix of it.
C8_ArchivoDeEjemplo ==
    /\ (Terminado /\ exit_code = 0) => Veces("EMIT_EXAMPLE_FILE") = 1
    /\ (Terminado /\ exit_code = 1) =>
           (Veces("EMIT_EXAMPLE_FILE") = 0 /\ escrito[RutaResta] = "no"
            /\ cambios[RutaResta] = 0)
    /\ escrito[RutaResta] = "ok" => fs[RutaResta] = Archivo(nuevo_codigo)
    /\ fs[RutaResta].existe => fs[RutaResta].datos \in Prefijos(nuevo_codigo)

C8_Witness ==
    /\ Terminado
    /\ corrida = 2
    /\ exit_code = 1
    /\ fs[RutaResta] = Archivo(nuevo_codigo)
    /\ fs[RutaCodigo].datos # <<>>

C10_TodoTextoSigue ==
    (Terminado /\ EnTraza("IMPROVE") /\ ~codigo_mejorado.nulo) =>
        /\ Len(traza) >= 8
        /\ SubSeq(traza, 1, 8) = CaminoHastaSwap \o <<"TEST_IMPROVED">>

\* C10, amended: once the original passed, the run ends with status 1 at
\* IMPROVE exactly when the engine gave None or the empty text; for every
\* non-empty text it goes through STAGE_TEMP, DIFF_LOG, LINT_LOG and SWAP in
\* that order, whatever the linters report, and on to TEST_IMPROVED when the
\* move succeeds (it ends with status 1 at SWAP when the move fails).
C10_CaminoTrasImprove ==
    (Terminado /\ EnTraza("IMPROVE")) =>
        IF codigo_mejorado.nulo \/ codigo_mejorado.v = <<>>
        THEN traza = CaminoHastaImprove /\ exit_code = 1
        ELSE /\ Len(traza) >= 7
             /\ SubSeq(traza, 1, 7) = CaminoHastaSwap
             /\ movido = "ok" => (Len(traza) >= 8 /\ traza[8] = "TEST_IMPROVED")
             /\ movido = "error" => (traza = CaminoHastaSwap /\ exit_code = 1)
             /\ movido # "no"

C10_Witness ==
    /\ Terminado
    /\ EnTraza("TEST_IMPROVED")
    /\ lint = <<"nocero", "None">>
    /\ escrito[RutaTemp] = "ok"

====
